---- MODULE Spec2Model ----
(***************************************************************************)
(* A model of the ts_malloc allocator (src/my_malloc.c): a circular,       *)
(* address-ordered free list of blocks with in-band headers, best-fit      *)
(* search, split-from-tail carving, coalescing on free, growth by sbrk,    *)
(* and the two entry-point families: the locked variant (one shared arena  *)
(* under free_list_mutex) and the per-thread variant (one arena per thread *)
(* in thread-local storage).                                               *)
(*                                                                         *)
(* Addresses and sizes are counted in header units, as the code does all   *)
(* its pointer arithmetic on Header*.  Memory is modelled field by field:  *)
(* next, size and tid hold what is stored at every address, stale values   *)
(* included.  A value the allocator never wrote (fresh sbrk memory, bytes  *)
(* of a payload the caller owns) is JUNK; reading it is a nondeterministic *)
(* choice.                                                                 *)
(***************************************************************************)
EXTENDS Integers, FiniteSets, Sequences, TLC

\* ------------------------------------------------------------ bounds
NThreads == 2
\* the calls of a run that records its history
MaxCalls == 4
\* the calls of a run of the locked variant that keeps stale memory
MaxRaceCalls == 7
\* the units the OS grants in all: sbrk fails beyond them (and may fail before)
MaxHeap == 3
\* the same for the runs of a single thread
MaxHeapSeq == 5
\* width of size_t and of unsigned, scaled down so that TLC can reach the
\* values where the difference between the two matters (LP64: 64 and 32)
SizeBits == 8
UIntBits == 2

\* ------------------------------------------------------------ constants
NULL == 0
JUNK == 0 - 1
SBRK_FAILED == 0 - 1
GARBAGE == 0 - 2
sizeof_Header == 16
SizeMod == 2 ^ SizeBits
UINT_MAX == 2 ^ UIntBits - 1

Threads == 1..NThreads
\* arena identifiers: G is the shared arena (free_list, base); a thread's
\* identifier names its thread-local arena (tls_free_list, tls_base)
G == 0
Arenas == {G} \cup Threads
\* the sentinels are static objects placed below the heap
Base(ar) == ar + 1
HeapStart == NThreads + 3
HeapEnd == HeapStart + (IF MaxHeap > MaxHeapSeq THEN MaxHeap ELSE MaxHeapSeq)
Heap == HeapStart..(HeapEnd - 1)
Addr == 1..(HeapEnd - 1)
Fuel == HeapEnd + 1
ReqBytes == {0, 16}
\* the largest size_t, a request whose unit computation wraps
SIZE_MAX == SizeMod - 1
\* the payload pointers: one unit past a header
Payloads == {h + 1 : h \in Heap}

VARIABLES
    need_lock,        \* TRUE: the program uses ts_malloc_lock/ts_free_lock
    fl,               \* fl[G] = free_list, fl[t] = tls_free_list of thread t
    next, size, tid,  \* the header fields stored at each address
    brk,              \* the program break
    limit,            \* the highest break the OS grants
    free_list_mutex,  \* 0, or the thread that locked it
    sbrk_mutex,       \* 0, or the thread that locked it
    pc,               \* where each thread is
    loc,              \* each thread's arguments and locals
    ret,              \* what the public entry point handed to its caller
    live,             \* payloads handed out and not yet passed to free
    raced,            \* two threads have used the shared arena at once
    obs,              \* what the run records: "none", "seq" or "ser"
    rt,               \* "seq": allocations only so far, then frees only
    before,           \* "seq": the allocator state when the current call began
    hist              \* "ser": the calls that returned, in the order they did

vars == <<need_lock, fl, next, size, tid, brk, limit, free_list_mutex, sbrk_mutex,
          pc, loc, ret, live, raced, obs, rt, before, hist>>

\* the variables that only record the run
ghost == <<obs, rt, before, hist>>

\* the program that keeps every stale header field in memory and whose
\* callers go on calling after a data race; it asks for one unit at a time
KeepsStale == obs = "race"

\* the byte counts callers ask for; one program also asks for SIZE_MAX
Requests ==
    CASE obs = "ovf"  -> ReqBytes \cup {SIZE_MAX}
      [] obs = "race" -> {0}
      [] OTHER        -> ReqBytes

Mem == [next |-> next, size |-> size, tid |-> tid, fl |-> fl]

ArenaOf(t) == IF need_lock THEN G ELSE t

\* the places where a thread of the locked variant is between its lock and
\* its unlock of free_list_mutex
InCS(t) == pc[t] \in {"m_search", "m_exact", "m_carve", "f_insert"}

\* thread t uses the shared arena while another thread is inside its critical
\* section: a data race, after which the C program has no defined behaviour.
\* The model follows the calls in flight to their end and starts no new one.
Races(t) == need_lock /\ \E u \in Threads \ {t} : InCS(u)

NoLoc == [op |-> "none", n |-> 0, sunits |-> 0, prev |-> NULL, curr |-> NULL,
          ptr |-> NULL, res |-> NULL, by |-> 0, arg |-> 0, inv |-> 0, grown |-> 0]

\* ------------------------------------------------------------ pure parts

\* size_t sunits = (n + sizeof(Header) - 1) / sizeof(Header) + 1
units_of(n) == (((n + sizeof_Header - 1) % SizeMod) \div sizeof_Header + 1) % SizeMod

\* an unlock that releases nothing
unlock_nothing(m, self) == {m}

\* pthread_mutex_unlock by thread self of a mutex whose state is m.  Unlocking
\* a default mutex the caller does not hold is undefined: the lock is
\* released anyway (what a normal glibc mutex does) or left as it is.
pthread_mutex_unlock(m, self) == IF m = self THEN {0} ELSE {0, m}

\* the outcomes of the comparison toAdd->tid == pthread_self()
tid_equal(v, self) == IF v = JUNK THEN BOOLEAN ELSE {v = self}

initialize_alloc(S, ar, self) ==
    [S EXCEPT !.fl[ar] = Base(ar),
              !.size[Base(ar)] = 0,
              !.next[Base(ar)] = Base(ar),
              !.tid[Base(ar)] = self]

\* the search loop of my_malloc: one lap from head->next back to head
RECURSIVE my_malloc_walk(_, _, _, _, _, _, _, _, _)
my_malloc_walk(S, head, sunits, prev, curr, best, bestPrev, mindiff, fuel) ==
    IF curr \notin Addr \/ S.size[curr] = JUNK
    THEN [kind |-> "ub", prev |-> NULL, curr |-> NULL]
    ELSE IF S.size[curr] >= sunits /\ S.size[curr] = sunits
    THEN [kind |-> "exact", prev |-> prev, curr |-> curr]
    ELSE LET better == S.size[curr] >= sunits /\ S.size[curr] - sunits < mindiff
             b  == IF better THEN curr ELSE best
             bp == IF better THEN prev ELSE bestPrev
             md == IF better THEN (S.size[curr] - sunits) % (UINT_MAX + 1)
                             ELSE mindiff
         IN IF curr = head
            THEN IF b # NULL
                 THEN [kind |-> "best", prev |-> bp, curr |-> b]
                 ELSE [kind |-> "miss", prev |-> NULL, curr |-> NULL]
            ELSE IF fuel = 0
            THEN [kind |-> "hang", prev |-> NULL, curr |-> NULL]
            ELSE my_malloc_walk(S, head, sunits, curr, S.next[curr], b, bp, md,
                                fuel - 1)

\* a carving that leaves the size of start as it was
carve_without_shrinking(S, start, sz) ==
    LET out == start + (S.size[start] - sz)
    IN IF S.size[start] = JUNK \/ out \notin Addr
       THEN [kind |-> "ub", S |-> S, res |-> NULL]
       ELSE [kind |-> "ok", S |-> [S EXCEPT !.size[out] = sz], res |-> out + 1]

\* processBlock(start, size): carve size units off the high end of start
processBlock(S, start, sz) ==
    LET rest == (S.size[start] - sz) % SizeMod
        out  == start + rest
    IN IF S.size[start] = JUNK \/ out \notin Addr
       THEN [kind |-> "ub", S |-> S, res |-> NULL]
       ELSE [kind |-> "ok",
             S |-> [S EXCEPT !.size = [[S.size EXCEPT ![start] = rest]
                                           EXCEPT ![out] = sz]],
             res |-> out + 1]

\* an insertion that links toAdd after block and merges nothing
link_only(S, toAdd, block, ar) ==
    [kind |-> "ok",
     S |-> [S EXCEPT !.next = [[S.next EXCEPT ![toAdd] = S.next[block]]
                                   EXCEPT ![block] = toAdd],
                     !.fl[ar] = block],
     dead |-> {}]

\* coalescing_blocks(toAdd, block, fl)
coalescing_blocks(S, toAdd, block, ar) ==
    LET bn == S.next[block]
    IN IF S.size[toAdd] = JUNK \/ bn \notin Addr \/ S.size[block] = JUNK
       THEN [kind |-> "ub", S |-> S, dead |-> {}]
       ELSE
       LET up == toAdd + S.size[toAdd] = bn
       IN IF up /\ (S.size[bn] = JUNK \/ S.next[bn] = JUNK)
          THEN [kind |-> "ub", S |-> S, dead |-> {}]
          ELSE
          LET size1 == IF up
                       THEN [S.size EXCEPT ![toAdd] = (@ + S.size[bn]) % SizeMod]
                       ELSE S.size
              next1 == [S.next EXCEPT ![toAdd] = IF up THEN S.next[bn] ELSE bn]
              low   == toAdd = block + size1[block]
              size2 == IF low
                       THEN [size1 EXCEPT ![block] = (@ + size1[toAdd]) % SizeMod]
                       ELSE size1
              next2 == [next1 EXCEPT ![block] = IF low THEN next1[toAdd] ELSE toAdd]
          IN [kind |-> "ok",
              S |-> [S EXCEPT !.size = size2, !.next = next2, !.fl[ar] = block],
              dead |-> (IF up THEN {bn} ELSE {}) \cup (IF low THEN {toAdd} ELSE {})]

\* the search loop of insert_free_list: the node temp with toAdd between temp
\* and temp->next in cyclic address order
RECURSIVE insert_position(_, _, _, _)
insert_position(S, toAdd, temp, fuel) ==
    IF temp \notin Addr \/ S.next[temp] \notin Addr
    THEN JUNK
    ELSE IF (toAdd > temp /\ toAdd < S.next[temp])
            \/ (temp >= S.next[temp] /\ (toAdd > temp \/ toAdd < S.next[temp]))
    THEN temp
    ELSE IF fuel = 0
    THEN NULL
    ELSE insert_position(S, toAdd, S.next[temp], fuel - 1)

\* insert_free_list(ptr, fl), eq being the outcome of the tid comparison
insert_free_list(S, ptr, ar, eq) ==
    LET toAdd == ptr - 1
    IN IF ~eq
       THEN [kind |-> "dropped", S |-> S, dead |-> {}]
       ELSE LET temp == insert_position(S, toAdd, S.fl[ar], Fuel)
            IN IF temp = JUNK THEN [kind |-> "ub", S |-> S, dead |-> {}]
               ELSE IF temp = NULL THEN [kind |-> "hang", S |-> S, dead |-> {}]
               ELSE coalescing_blocks(S, toAdd, temp, ar)

\* the bytes of a payload belong to the caller, who may store anything there
handed_out(S, f, h) ==
    [a \in Addr |-> IF a > h /\ S.size[h] # JUNK /\ a < h + S.size[h]
                    THEN JUNK ELSE f[a]]

\* memory once the block at h has left the list for a caller
give(S, h) ==
    [S EXCEPT !.next = IF KeepsStale THEN handed_out(S, S.next, h)
                       ELSE [handed_out(S, S.next, h) EXCEPT ![h] = JUNK],
              !.size = handed_out(S, S.size, h),
              !.tid = handed_out(S, S.tid, h)]

\* State-space abstraction, not code: the next and size fields of a header
\* that coalescing has absorbed into a larger free block, and the next field
\* of a block that left the list, stay in memory as stale values.  The
\* allocator writes them again before it reads them (insert_free_list writes
\* next, processBlock writes size), so the model forgets them: a thread that
\* does read one, through a pointer it kept across a data race, reads JUNK.
\* The program KeepsStale keeps them.
retire(S, dead) ==
    IF KeepsStale THEN S ELSE
    [S EXCEPT !.next = [a \in Addr |-> IF a \in dead THEN JUNK ELSE S.next[a]],
              !.size = [a \in Addr |-> IF a \in dead THEN JUNK ELSE S.size[a]]]

\* ------------------------------------------------------------ the state machine

\* the nodes of arena ar: what following next from the head reaches
RECURSIVE reach(_, _, _, _)
reach(S, a, seen, fuel) ==
    IF a \notin Addr \/ a \in seen \/ fuel = 0 THEN seen
    ELSE reach(S, S.next[a], seen \cup {a}, fuel - 1)

Nodes(S, ar) == reach(S, S.fl[ar], {}, Fuel)

\* an arena as its head and its nodes with their sizes and links; an arena
\* not yet initialised is the arena that holds its sentinel alone
ArenaView(S, ar) ==
    IF S.fl[ar] = NULL
    THEN [head |-> Base(ar), nodes |-> {<<Base(ar), 0, Base(ar)>>}]
    ELSE [head |-> S.fl[ar],
          nodes |-> {<<a, S.size[a], S.next[a]>> : a \in Nodes(S, ar)}]

AllocState == [arenas |-> [ar \in Arenas |-> ArenaView(Mem, ar)], brk |-> brk]

InFlight == Cardinality({u \in Threads : pc[u] # "idle"})

\* the record of a call as it begins
GhostBegin(t, isMalloc) ==
    /\ obs = "ser" => Len(hist) + InFlight < MaxCalls
    /\ obs = "race" => Len(hist) + InFlight < MaxRaceCalls
    /\ rt' = IF obs # "seq" THEN rt
             ELSE IF isMalloc THEN (IF rt = "alloc" THEN "alloc" ELSE "off")
             ELSE (IF rt \in {"alloc", "free"} THEN "free" ELSE "off")
    /\ before' = IF obs = "seq" THEN AllocState ELSE before
    /\ UNCHANGED <<obs, hist>>

\* the record of a call as it returns res; a round trip is one of calls
\* that succeed and hand their payload to the caller
GhostReturn(t, res) ==
    /\ hist' = IF obs = "ser"
               THEN Append(hist, [t |-> t, op |-> loc[t].op, arg |-> loc[t].arg,
                                  res |-> res, inv |-> loc[t].inv])
               ELSE IF obs = "race" THEN Append(hist, "call")
               ELSE hist
    /\ rt' = IF obs = "seq" /\ loc[t].op = "malloc" /\ (res = NULL \/ ret'[t] # res)
             THEN "off" ELSE rt
    /\ UNCHANGED <<obs, before>>

\* memory at program start: the statics are zero, the heap is not mapped
InitMem ==
    [fl   |-> [ar \in Arenas |-> NULL],
     next |-> [a \in Addr |-> IF a \in Heap THEN JUNK ELSE NULL],
     size |-> [a \in Addr |-> IF a \in Heap THEN JUNK ELSE 0],
     tid  |-> [a \in Addr |-> IF a \in Heap THEN JUNK ELSE 0]]

Init0 ==
    /\ need_lock \in BOOLEAN
    /\ fl = InitMem.fl
    /\ next = InitMem.next
    /\ size = InitMem.size
    /\ tid = InitMem.tid
    /\ brk = HeapStart
    /\ free_list_mutex = 0
    /\ sbrk_mutex = 0
    /\ pc = [t \in Threads |-> "idle"]
    /\ loc = [t \in Threads |-> NoLoc]
    /\ ret = [t \in Threads |-> NULL]
    /\ live = {}
    /\ raced = FALSE
    /\ rt = "alloc"
    /\ before = AllocState
    /\ hist = <<>>

Init == Init0 /\ limit = HeapStart + MaxHeap /\ obs = "none"

SetMem(S) ==
    /\ next' = S.next
    /\ size' = S.size
    /\ tid' = S.tid
    /\ fl' = S.fl

\* what the caller of ts_malloc_lock / ts_malloc_nolock receives: the
\* functions end without a return statement, so the value is indeterminate
ts_malloc_result(inner) == {inner, GARBAGE}

\* my_malloc returns res to ts_malloc_lock / ts_malloc_nolock, which returns
\* to the caller; S is the memory my_malloc leaves
Return(t, S, res) ==
    /\ ret' \in {[ret EXCEPT ![t] = v] : v \in ts_malloc_result(res)}
    /\ GhostReturn(t, res)
    /\ loc' = [loc EXCEPT ![t].res = res, ![t].prev = NULL, ![t].curr = NULL,
                          ![t].ptr = NULL]
    /\ pc' = [pc EXCEPT ![t] = "returned"]
    /\ IF res = NULL
       THEN SetMem(S) /\ UNCHANGED live
       ELSE LET h == res - 1
            IN /\ live' = live \cup {[h |-> h, n |-> loc[t].n, sz |-> loc[t].sunits,
                                      by |-> t, dup |-> \E x \in live : x.h = h]}
               /\ SetMem(give(S, h))

\* the caller enters ts_malloc_lock(n) or ts_malloc_nolock(n); my_malloc
\* locks free_list_mutex in the locked variant and computes sunits
my_malloc_begin(t, n) ==
    /\ pc[t] = "idle"
    /\ raced => KeepsStale
    /\ n \in Requests
    /\ need_lock => free_list_mutex = 0
    /\ free_list_mutex' = IF need_lock THEN t ELSE free_list_mutex
    /\ GhostBegin(t, TRUE)
    /\ loc' = [loc EXCEPT ![t] = [NoLoc EXCEPT !.op = "malloc", !.n = n,
                                               !.sunits = units_of(n),
                                               !.arg = n, !.inv = Len(hist)]]
    /\ pc' = [pc EXCEPT ![t] = "m_search"]
    /\ UNCHANGED <<need_lock, raced, fl, next, size, tid, brk, limit, sbrk_mutex,
                   ret, live>>

\* my_malloc: first-use initialisation and one lap of the search loop; on a
\* miss malloc_sys is entered, which unlocks free_list_mutex
my_malloc_search(t) ==
    /\ pc[t] = "m_search"
    /\ raced' = (raced \/ Races(t))
    /\ LET ar == ArenaOf(t)
           S1 == IF fl[ar] = NULL THEN initialize_alloc(Mem, ar, t) ELSE Mem
           r  == my_malloc_walk(S1, S1.fl[ar], loc[t].sunits, S1.fl[ar],
                                S1.next[S1.fl[ar]], NULL, NULL, UINT_MAX, Fuel)
       IN /\ SetMem(S1)
          /\ loc' = [loc EXCEPT ![t].prev = r.prev, ![t].curr = r.curr]
          /\ pc' = [pc EXCEPT ![t] =
                CASE r.kind = "exact" -> "m_exact"
                  [] r.kind = "best"  -> "m_carve"
                  [] r.kind = "miss"  -> "sbrk_lock"
                  [] OTHER            -> r.kind]
          /\ free_list_mutex' \in IF need_lock /\ r.kind = "miss"
                                  THEN pthread_mutex_unlock(free_list_mutex, t)
                                  ELSE {free_list_mutex}
    /\ UNCHANGED <<ghost, need_lock, brk, limit, sbrk_mutex, ret, live>>

\* my_malloc: the exact fit is unlinked and returned
my_malloc_exact(t) ==
    /\ pc[t] = "m_exact"
    /\ raced' = (raced \/ Races(t))
    /\ LET ar == ArenaOf(t)
           p == loc[t].prev
           c == loc[t].curr
       IN Return(t, [Mem EXCEPT !.next[p] = next[c], !.fl[ar] = p], c + 1)
    /\ free_list_mutex' \in IF need_lock
                            THEN pthread_mutex_unlock(free_list_mutex, t)
                            ELSE {free_list_mutex}
    /\ UNCHANGED <<need_lock, brk, limit, sbrk_mutex>>

\* my_malloc: the best block is carved from its tail
my_malloc_carve(t) ==
    /\ pc[t] = "m_carve"
    /\ raced' = (raced \/ Races(t))
    /\ LET ar == ArenaOf(t)
           r == processBlock([Mem EXCEPT !.fl[ar] = loc[t].prev], loc[t].curr,
                             loc[t].sunits)
       IN IF r.kind = "ok"
          THEN Return(t, r.S, r.res)
          ELSE /\ pc' = [pc EXCEPT ![t] = "ub"]
               /\ UNCHANGED <<ghost, fl, next, size, tid, loc, ret, live>>
    /\ free_list_mutex' \in IF need_lock
                            THEN pthread_mutex_unlock(free_list_mutex, t)
                            ELSE {free_list_mutex}
    /\ UNCHANGED <<need_lock, brk, limit, sbrk_mutex>>

\* a lock of sbrk_mutex that does not wait for it
lock_without_waiting(t) ==
    /\ pc[t] = "sbrk_lock"
    /\ sbrk_mutex' = t
    /\ pc' = [pc EXCEPT ![t] = "sbrk"]
    /\ UNCHANGED <<ghost, need_lock, raced, fl, next, size, tid, brk, limit,
                   free_list_mutex, loc, ret, live>>

\* malloc_sys: pthread_mutex_lock(&sbrk_mutex)
malloc_sys_sbrk_lock(t) ==
    /\ pc[t] = "sbrk_lock"
    /\ sbrk_mutex = 0
    /\ sbrk_mutex' = t
    /\ pc' = [pc EXCEPT ![t] = "sbrk"]
    /\ UNCHANGED <<ghost, need_lock, raced, fl, next, size, tid, brk, limit,
                   free_list_mutex, loc, ret, live>>

\* sbrk(increment): the old break, and the break moved; or failure
sbrk_ok(t) ==
    /\ pc[t] = "sbrk"
    /\ brk + loc[t].sunits <= limit
    /\ loc' = [loc EXCEPT ![t].ptr = brk, ![t].grown = @ + 1]
    /\ brk' = brk + loc[t].sunits
    /\ pc' = [pc EXCEPT ![t] = "sbrk_unlock"]
    /\ UNCHANGED <<ghost, need_lock, raced, fl, next, size, tid, limit, free_list_mutex,
                   sbrk_mutex, ret, live>>

sbrk_fails(t) ==
    /\ pc[t] = "sbrk"
    /\ loc' = [loc EXCEPT ![t].ptr = SBRK_FAILED]
    /\ pc' = [pc EXCEPT ![t] = "sbrk_unlock"]
    /\ UNCHANGED <<ghost, need_lock, raced, fl, next, size, tid, brk, limit,
                   free_list_mutex, sbrk_mutex, ret, live>>

\* malloc_sys: pthread_mutex_unlock(&sbrk_mutex), and the new header
malloc_sys_sbrk_unlock(t) ==
    /\ pc[t] = "sbrk_unlock"
    /\ loc[t].ptr # SBRK_FAILED
    /\ sbrk_mutex' \in pthread_mutex_unlock(sbrk_mutex, t)
    /\ pc' = [pc EXCEPT ![t] = "sys_insert"]
    /\ UNCHANGED <<ghost, need_lock, raced, fl, next, size, tid, brk, limit,
                   free_list_mutex, loc, ret, live>>

\* malloc_sys: pthread_mutex_unlock(&sbrk_mutex); sbrk failed, return NULL;
\* my_malloc unlocks free_list_mutex in the locked variant and returns NULL
my_malloc_fail(t) ==
    /\ pc[t] = "sbrk_unlock"
    /\ loc[t].ptr = SBRK_FAILED
    /\ sbrk_mutex' \in pthread_mutex_unlock(sbrk_mutex, t)
    /\ free_list_mutex' \in IF need_lock
                            THEN pthread_mutex_unlock(free_list_mutex, t)
                            ELSE {free_list_mutex}
    /\ Return(t, Mem, NULL)
    /\ UNCHANGED <<need_lock, raced, brk, limit>>

\* malloc_sys: the new block gets its header and is inserted, in the locked
\* variant by ts_sys_free_lock, which locks free_list_mutex and keeps it
malloc_sys_insert(t) ==
    /\ pc[t] = "sys_insert"
    /\ raced' = (raced \/ Races(t))
    /\ need_lock => free_list_mutex = 0
    /\ free_list_mutex' = IF need_lock THEN t ELSE free_list_mutex
    /\ LET h == loc[t].ptr
           S1 == [Mem EXCEPT !.size[h] = loc[t].sunits, !.tid[h] = t]
           r == insert_free_list(S1, h + 1, ArenaOf(t), S1.tid[h] = t)
       IN /\ SetMem(retire(r.S, r.dead))
          /\ pc' = [pc EXCEPT ![t] = IF r.kind = "ok" THEN "m_search" ELSE r.kind]
    /\ loc' = [loc EXCEPT ![t].ptr = NULL]
    /\ UNCHANGED <<ghost, need_lock, brk, limit, sbrk_mutex, ret, live>>

\* the caller goes on
resume(t) ==
    /\ pc[t] = "returned"
    /\ pc' = [pc EXCEPT ![t] = "idle"]
    /\ loc' = [loc EXCEPT ![t] = NoLoc]
    /\ ret' = [ret EXCEPT ![t] = NULL]
    /\ UNCHANGED <<ghost, need_lock, raced, fl, next, size, tid, brk, limit,
                   free_list_mutex, sbrk_mutex, live>>

\* the caller enters ts_free_lock(p) or ts_free_nolock(p), p outstanding;
\* ts_free_lock locks free_list_mutex
ts_free_begin(t, ptr) ==
    /\ pc[t] = "idle"
    /\ raced => KeepsStale
    /\ need_lock => free_list_mutex = 0
    /\ free_list_mutex' = IF need_lock THEN t ELSE free_list_mutex
    /\ GhostBegin(t, FALSE)
    /\ \E b \in live :
         /\ b.h = ptr - 1
         /\ live' = live \ {b}
         /\ loc' = [loc EXCEPT ![t] = [NoLoc EXCEPT !.op = "free", !.ptr = ptr,
                                                    !.sunits = b.sz,
                                                    !.by = b.by, !.arg = ptr,
                                                    !.inv = Len(hist)]]
    /\ pc' = [pc EXCEPT ![t] = "f_insert"]
    /\ UNCHANGED <<need_lock, raced, fl, next, size, tid, brk, limit, sbrk_mutex, ret>>

\* ts_free_lock / ts_free_nolock: insert_free_list(ptr, &list), and the
\* unlock of free_list_mutex in the locked variant
ts_free_insert(t) ==
    /\ pc[t] = "f_insert"
    /\ raced' = (raced \/ Races(t))
    /\ \E eq \in tid_equal(tid[loc[t].ptr - 1], t) :
         LET r == insert_free_list(Mem, loc[t].ptr, ArenaOf(t), eq)
         IN /\ SetMem(retire(r.S, r.dead))
            /\ pc' = [pc EXCEPT ![t] = IF r.kind \in {"ok", "dropped"}
                                       THEN "returned" ELSE r.kind]
            /\ loc' = [loc EXCEPT ![t].res = IF r.kind = "ok" THEN loc[t].ptr ELSE NULL]
            /\ IF r.kind \in {"ok", "dropped"}
               THEN GhostReturn(t, NULL)
               ELSE UNCHANGED ghost
    /\ free_list_mutex' \in IF need_lock
                            THEN pthread_mutex_unlock(free_list_mutex, t)
                            ELSE {free_list_mutex}
    /\ UNCHANGED <<need_lock, brk, limit, sbrk_mutex, ret, live>>

Step(t) ==
    \/ \E n \in ReqBytes \cup {SIZE_MAX} : my_malloc_begin(t, n)
    \/ my_malloc_search(t)
    \/ my_malloc_exact(t)
    \/ my_malloc_carve(t)
    \/ malloc_sys_sbrk_lock(t)
    \/ sbrk_ok(t)
    \/ sbrk_fails(t)
    \/ malloc_sys_sbrk_unlock(t)
    \/ my_malloc_fail(t)
    \/ malloc_sys_insert(t)
    \/ resume(t)
    \/ \E ptr \in Payloads : ts_free_begin(t, ptr)
    \/ ts_free_insert(t)

Next == \E t \in Threads : Step(t)

Spec == Init /\ [][Next]_vars

\* the program of a single thread
InitSeq == Init0 /\ limit = HeapStart + MaxHeapSeq /\ obs = "seq"

NextSeq == Step(1)

SpecSeq == InitSeq /\ [][NextSeq]_vars

\* the program of a single thread whose requests include SIZE_MAX
InitOvf == Init0 /\ limit = HeapStart + MaxHeap /\ obs = "ovf"

SpecOvf == InitOvf /\ [][NextSeq]_vars

\* the locked variant with stale memory kept and calls after a race
InitRace == Init0 /\ need_lock /\ limit = HeapStart + MaxHeap /\ obs = "race"

SpecRace == InitRace /\ [][Next]_vars

\* the locked variant, keeping the history of a bounded number of calls
InitSer == Init0 /\ need_lock /\ limit = HeapStart + MaxHeap /\ obs = "ser"

SpecSer == InitSer /\ [][Next]_vars

\* ------------------------------------------------------------ properties

\* the bytes of an outstanding allocation: [payload, payload + requested_bytes)
PayloadLo(b) == (b.h + 1) * sizeof_Header
PayloadHi(b) == (b.h + 1) * sizeof_Header + b.n

\* C1: any two outstanding allocations are disjoint, as byte ranges
\* [payload, payload + requested_bytes) and as unit ranges [h, h + size), and
\* no block is handed out while it is still outstanding
C1_NoOverlap ==
    \A a, b \in live :
        /\ ~a.dup
        /\ a # b => /\ (a.h + a.sz <= b.h \/ b.h + b.sz <= a.h)
                    /\ (PayloadHi(a) <= PayloadLo(b) \/ PayloadHi(b) <= PayloadLo(a)
                        \/ a.n = 0 \/ b.n = 0)

\* C2: ts_malloc_lock and ts_malloc_nolock return to the caller the value
\* my_malloc computed: the payload on success, NULL on growth failure
C2_ReturnsInner ==
    \A t \in Threads :
        (pc[t] = "returned" /\ loc[t].op = "malloc") => ret[t] = loc[t].res

\* C7: in the locked variant a thread reads or writes the shared arena only
\* while it holds free_list_mutex (which one thread holds at a time)
C7_ArenaUnderLock ==
    need_lock => \A t \in Threads : InCS(t) => free_list_mutex = t

\* header h lies in a free block of arena ar
InFreeBlock(ar, h) ==
    \E a \in Nodes(Mem, ar) : size[a] # JUNK /\ a <= h /\ h < a + size[a]

\* C3: in the locked variant ts_free_lock(p) of an outstanding payload puts
\* p's block into the shared arena whichever thread calls it; it is never
\* dropped
C3_FreeLockedInserts ==
    [][\A t \in Threads :
         (need_lock /\ pc[t] = "f_insert" /\ pc'[t] = "returned")
             => InFreeBlock(G, loc[t].ptr - 1)']_vars

\* C4: in the per-thread variant every outstanding block carries the id of
\* the thread that allocated it, and that thread's ts_free_nolock of it puts
\* the block into the thread's arena
C4_OwnTagOwnFree ==
    /\ [](~need_lock => \A b \in live : tid[b.h] = b.by)
    /\ [][\A t \in Threads :
            (~need_lock /\ pc[t] = "f_insert" /\ loc[t].by = t /\ pc'[t] # pc[t])
                => (pc'[t] = "returned" /\ InFreeBlock(t, loc[t].ptr - 1)')]_vars

\* C5: in the per-thread variant ts_free_nolock(p) by a thread that did not
\* allocate p returns normally and leaves every arena as it was
C5_ForeignFreeDiscarded ==
    [][\A t \in Threads :
         (~need_lock /\ pc[t] = "f_insert" /\ loc[t].by # t /\ pc'[t] # pc[t])
             => /\ pc'[t] = "returned"
                /\ \A ar \in Arenas : ArenaView(Mem, ar)' = ArenaView(Mem, ar)]_vars

\* C6: an allocation that ends in a growth failure yields NULL and leaves
\* the arenas (blocks, sizes, links, head) and the program break as they
\* were when it was called
C6_FailureChangesNothing ==
    (obs = "seq" /\ pc[1] = "returned" /\ loc[1].op = "malloc" /\ loc[1].res = NULL)
        => AllocState = before

\* the blocks of arena ar in the order the search meets them: from
\* head->next round to the head
RECURSIVE walk_order(_, _, _, _)
walk_order(S, a, head, fuel) ==
    IF a \notin Addr \/ fuel = 0 THEN <<>>
    ELSE IF a = head THEN <<a>>
    ELSE <<a>> \o walk_order(S, S.next[a], head, fuel - 1)

\* the positions in that order of the blocks that can hold r units
Fitting(S, ar, r) ==
    LET ord == walk_order(S, S.next[S.fl[ar]], S.fl[ar], Fuel)
    IN {i \in DOMAIN ord : S.size[ord[i]] >= r}

\* the first met of the smallest blocks that can hold r units
BestFit(S, ar, r) ==
    LET ord == walk_order(S, S.next[S.fl[ar]], S.fl[ar], Fuel)
        fit == Fitting(S, ar, r)
        i   == CHOOSE i \in fit :
                   \A j \in fit : \/ S.size[ord[i]] < S.size[ord[j]]
                                  \/ S.size[ord[i]] = S.size[ord[j]] /\ i <= j
    IN ord[i]

\* C10: when some free block of the arena can hold the r units requested,
\* the search serves the request without growth from the first met of the
\* smallest such blocks
C10_BestFit ==
    [][\A t \in Threads :
         (/\ pc[t] = "m_search" /\ pc'[t] # "m_search"
          /\ fl[ArenaOf(t)] # NULL
          /\ Fitting(Mem, ArenaOf(t), loc[t].sunits) # {})
             => /\ pc'[t] \in {"m_exact", "m_carve"}
                /\ loc'[t].curr = BestFit(Mem, ArenaOf(t), loc[t].sunits)]_vars

\* C9: on one thread, after allocations that all succeeded from an empty
\* arena and the freeing of every pointer they returned, the arena is the
\* sentinel and one free block of all the units sbrk gave
C9_RoundTrip ==
    (obs = "seq" /\ rt = "free" /\ live = {} /\ pc[1] = "idle")
        => ArenaView(Mem, ArenaOf(1)).nodes =
               {<<Base(ArenaOf(1)), 0, HeapStart>>,
                <<HeapStart, brk - HeapStart, Base(ArenaOf(1))>>}

\* a round trip of three allocations or more has ended
C9_Witness ==
    /\ obs = "seq" /\ rt = "free" /\ live = {} /\ pc[1] = "idle"
    /\ brk - HeapStart >= 5

\* ts_malloc_lock run alone from memory S and break b: the memories, breaks
\* and results it can end with (sbrk may refuse at any call)
RECURSIVE atomic_malloc(_, _, _, _, _)
atomic_malloc(S, b, sunits, t, fuel) ==
    LET S1 == IF S.fl[G] = NULL THEN initialize_alloc(S, G, t) ELSE S
        r  == my_malloc_walk(S1, S1.fl[G], sunits, S1.fl[G], S1.next[S1.fl[G]],
                             NULL, NULL, UINT_MAX, Fuel)
    IN CASE r.kind = "exact" ->
              {[S |-> give([S1 EXCEPT !.next[r.prev] = S1.next[r.curr],
                                      !.fl[G] = r.prev], r.curr),
                brk |-> b, res |-> r.curr + 1]}
         [] r.kind = "best" ->
              LET c == processBlock([S1 EXCEPT !.fl[G] = r.prev], r.curr, sunits)
              IN IF c.kind = "ok"
                 THEN {[S |-> give(c.S, c.res - 1), brk |-> b, res |-> c.res]}
                 ELSE {}
         [] r.kind = "miss" ->
              {[S |-> S1, brk |-> b, res |-> NULL]} \cup
              (IF b + sunits <= limit /\ fuel > 0
               THEN LET S2 == [S1 EXCEPT !.size[b] = sunits, !.tid[b] = t]
                        i  == insert_free_list(S2, b + 1, G, TRUE)
                    IN IF i.kind = "ok"
                       THEN atomic_malloc(retire(i.S, i.dead), b + sunits, sunits,
                                          t, fuel - 1)
                       ELSE {}
               ELSE {})
         [] OTHER -> {}

\* ts_free_lock(ptr) run alone
atomic_free(S, b, ptr, t) ==
    {[S |-> retire(i.S, i.dead), brk |-> b, res |-> NULL] :
        i \in {j \in {insert_free_list(S, ptr, G, eq) :
                         eq \in tid_equal(S.tid[ptr - 1], t)} :
                  j.kind \in {"ok", "dropped"}}}

\* the calls of rem can be run one at a time from st, each after every call
\* that returned before it was entered, with the results hist records, to
\* end with the free blocks and the break of the current state; out are
\* the payloads outstanding
RECURSIVE serial(_, _, _)
serial(st, out, rem) ==
    IF rem = {}
    THEN /\ ArenaView(st.S, G).nodes = ArenaView(Mem, G).nodes
         /\ st.brk = brk
    ELSE \E i \in rem :
            /\ \A j \in rem : j > hist[i].inv
            /\ IF hist[i].op = "malloc"
               THEN \E o \in atomic_malloc(st.S, st.brk, units_of(hist[i].arg),
                                           hist[i].t, Fuel) :
                        /\ o.res = hist[i].res
                        /\ serial([S |-> o.S, brk |-> o.brk],
                                  IF o.res = NULL THEN out ELSE out \cup {o.res},
                                  rem \ {i})
               ELSE /\ hist[i].arg \in out
                    /\ \E o \in atomic_free(st.S, st.brk, hist[i].arg, hist[i].t) :
                           serial([S |-> o.S, brk |-> o.brk], out \ {hist[i].arg},
                                  rem \ {i})

\* C8: in the locked variant, once every call has returned, the results of
\* the calls and the final shared arena and break are those of the same
\* calls run one at a time in an order that keeps real-time precedence
C8_StrictlySerializable ==
    (obs = "ser" /\ \A t \in Threads : pc[t] \in {"idle", "returned"})
        => serial([S |-> InitMem, brk |-> HeapStart], {}, DOMAIN hist)

\* the free blocks of arena ar: its nodes but the sentinel
FreeBlocks(ar) == Nodes(Mem, ar) \ {Base(ar)}

\* the block of sz units at h lies between two free blocks of arena ar
BothNeighboursFree(ar, h, sz) ==
    /\ \E a \in FreeBlocks(ar) : size[a] # JUNK /\ a + size[a] = h
    /\ h + sz \in FreeBlocks(ar)

\* a free of a block between two free blocks returns
FreesBetween(t) ==
    /\ pc[t] = "f_insert" /\ pc'[t] = "returned"
    /\ BothNeighboursFree(ArenaOf(t), loc[t].ptr - 1, loc[t].sunits)

\* C11 as the code has it: a free of a block whose two address neighbours
\* are free leaves one free block fewer than before (the three become
\* one) when the block is inserted, and as many as before when the tid
\* test drops it
C11_CoalesceLaw ==
    [][\A t \in Threads :
         FreesBetween(t)
             => Cardinality(FreeBlocks(ArenaOf(t)))' =
                    Cardinality(FreeBlocks(ArenaOf(t)))
                    - (IF InFreeBlock(ArenaOf(t), loc[t].ptr - 1)' THEN 1 ELSE 0)]_vars

\* C11 as stated: such a free leaves two free blocks fewer than before
C11_ReducedByTwo ==
    [][\A t \in Threads :
         FreesBetween(t)
             => Cardinality(FreeBlocks(ArenaOf(t)))' =
                    Cardinality(FreeBlocks(ArenaOf(t))) - 2]_vars

\* a free has just merged its block with a free block below and one above
C11_Witness ==
    /\ pc[1] = "returned" /\ loc[1].op = "free"
    /\ \E a \in FreeBlocks(ArenaOf(1)) :
          /\ a < loc[1].ptr - 1
          /\ a + size[a] > loc[1].ptr - 1 + loc[1].sunits

\* the unit computation of a request of n bytes wraps
Overflows(n) == n + sizeof_Header - 1 >= SizeMod

\* C12: a request whose unit computation overflows size_t returns NULL, and
\* no outstanding payload is backed by fewer bytes than were requested
C12_OverflowRejected ==
    /\ \A t \in Threads :
          (pc[t] = "returned" /\ loc[t].op = "malloc" /\ Overflows(loc[t].n))
              => loc[t].res = NULL
    /\ \A b \in live : (b.sz - 1) * sizeof_Header >= b.n

\* thread t takes a step that executes pthread_mutex_unlock(&free_list_mutex)
\* in the locked variant: on the miss that enters malloc_sys, on the two
\* success returns, on the growth failure return and at the end of
\* ts_free_lock
Unlocks(t) ==
    /\ need_lock
    /\ \/ pc[t] = "m_search" /\ pc'[t] = "sbrk_lock"
       \/ pc[t] = "m_exact" /\ pc'[t] # "m_exact"
       \/ pc[t] = "m_carve" /\ pc'[t] # "m_carve"
       \/ pc[t] = "sbrk_unlock" /\ pc'[t] = "returned"
       \/ pc[t] = "f_insert" /\ pc'[t] # "f_insert"

\* C13: in the locked variant every unlock of free_list_mutex is made by
\* the thread that holds it at that moment
C13_UnlockByHolder ==
    [][\A t \in Threads : Unlocks(t) => free_list_mutex = t]_vars

\* C14: no thread holds free_list_mutex and sbrk_mutex at the same time,
\* and the per-thread variant never locks free_list_mutex
C14_NeverBothMutexes ==
    /\ \A t \in Threads : ~(free_list_mutex = t /\ sbrk_mutex = t)
    /\ ~need_lock => free_list_mutex = 0

\* in the locked variant a thread is inside sbrk, holding sbrk_mutex after
\* it released free_list_mutex, which another thread has taken
C14_Witness ==
    /\ need_lock
    /\ pc[1] = "sbrk" /\ sbrk_mutex = 1
    /\ free_list_mutex = 2

\* thread t is between the lock and the unlock of sbrk_mutex in malloc_sys,
\* where sbrk is called
InSbrk(t) == pc[t] \in {"sbrk", "sbrk_unlock"}

\* C15: a thread calls sbrk only while it holds sbrk_mutex, in both
\* variants, so at most one thread is inside sbrk at a time
C15_SbrkUnderMutex ==
    /\ \A t \in Threads : InSbrk(t) => sbrk_mutex = t
    /\ Cardinality({t \in Threads : InSbrk(t)}) <= 1

\* in the per-thread variant one thread is inside sbrk while the other
\* waits for sbrk_mutex to grow its own arena
C15_Witness ==
    /\ ~need_lock
    /\ pc[1] = "sbrk" /\ pc[2] = "sbrk_lock"

\* C16: once sbrk has succeeded for a call, the retried search finds a
\* block and the call returns a payload: it does not go back to sbrk, and
\* it does not return NULL
C16_OneGrowthSuffices ==
    \A t \in Threads :
        /\ pc[t] \in {"sbrk_lock", "sbrk"} => loc[t].grown = 0
        /\ (pc[t] = "returned" /\ loc[t].op = "malloc" /\ loc[t].grown > 0)
               => loc[t].res # NULL

\* arena ar is a cycle through its head that is sorted by address with one
\* wrap and holds the sentinel, whose size is zero
WellFormed(ar) ==
    LET head == fl[ar]
        cyc  == walk_order(Mem, next[head], head, Fuel)
        ns   == {cyc[i] : i \in DOMAIN cyc}
    IN /\ head \in Addr
       /\ cyc # <<>> /\ cyc[Len(cyc)] = head
       /\ Cardinality(ns) = Len(cyc)
       /\ Base(ar) \in ns /\ size[Base(ar)] = 0
       /\ Cardinality({a \in ns : next[a] <= a}) = 1
       /\ \A a \in ns \ {Base(ar)} : a \in Heap /\ size[a] >= 1 /\ a + size[a] <= brk

\* C17: when a public operation has returned, its arena, if initialised,
\* is well formed
C17_WellFormed ==
    \A t \in Threads :
        (pc[t] = "returned" /\ fl[ArenaOf(t)] # NULL) => WellFormed(ArenaOf(t))

\* a free has returned to an arena of two free blocks or more
C17_Witness ==
    /\ pc[1] = "returned" /\ loc[1].op = "free"
    /\ Cardinality(FreeBlocks(ArenaOf(1))) >= 2

\* every node of arena ar but the last in address order ends below its
\* successor: no two free blocks touch or overlap
NonContiguous(ar) ==
    \A a \in Nodes(Mem, ar) :
        next[a] > a => (size[a] # JUNK /\ a + size[a] < next[a])

C18_Witness ==
    /\ pc[1] = "returned" /\ loc[1].op = "malloc" /\ loc[1].grown > 0
    /\ \E a \in FreeBlocks(ArenaOf(1)) : a + size[a] = loc[1].res - 1

\* C19: a request of R units served from a larger block at h of size B
\* returns the payload of a header at h + (B - R) of size R; the block at
\* h stays in the list with size B - R and its next; every other node keeps
\* its size and next; the head becomes the predecessor of the block at h
C19_CarveFrame ==
    [][\A t \in Threads :
         (pc[t] = "m_carve" /\ pc'[t] = "returned")
             => LET ar == ArenaOf(t)
                    h  == loc[t].curr
                    B  == size[h]
                    R  == loc[t].sunits
                IN /\ B > R
                   /\ loc'[t].res - 1 = h + (B - R)
                   /\ size'[h + (B - R)] = R
                   /\ size'[h] = B - R /\ next'[h] = next[h]
                   /\ Nodes(Mem, ar)' = Nodes(Mem, ar)
                   /\ \A a \in Nodes(Mem, ar) \ {h} :
                          size'[a] = size[a] /\ next'[a] = next[a]
                   /\ fl'[ar] \in Nodes(Mem, ar) /\ next[fl'[ar]] = h]_vars

\* a request has been carved, without growth, from the tail of a block
\* that stays in the list
C19_Witness ==
    /\ pc[1] = "returned" /\ loc[1].op = "malloc" /\ loc[1].grown = 0
    /\ \E a \in FreeBlocks(ArenaOf(1)) : a + size[a] = loc[1].res - 1

\* the minimum growth of the policy, in units, scaled to the heap of the
\* model; my_malloc.c names MIN_ALLOC in a comment and defines it nowhere
MIN_ALLOC == 4

\* what the policy asks of sbrk for a request of u units
policy_units(u) == IF u < MIN_ALLOC THEN u * (MIN_ALLOC \div u) ELSE u

\* C20: a successful sbrk for a request of u units moves the break by
\* u * (MIN_ALLOC / u) units when u < MIN_ALLOC and by u units otherwise
C20_MinimumGrowth ==
    [][\A t \in Threads :
         (pc[t] = "sbrk" /\ pc'[t] = "sbrk_unlock" /\ loc'[t].ptr # SBRK_FAILED)
             => brk' - brk = policy_units(loc[t].sunits)]_vars


====
